---- MODULE Spec2Model ----
(***************************************************************************)
(* Model of lighthouse-core/gather/computed/manifest-values.js: the        *)
(* ManifestValues computed artifact.  compute_ takes the Manifest artifact *)
(* (null, unparsed, or parsed) and returns a report of the manifest checks.*)
(*                                                                         *)
(* JavaScript values are modelled as tagged records so that undefined,     *)
(* null, strings, numbers, booleans, arrays and abrupt completions         *)
(* (a thrown TypeError) are all distinct and comparable.                   *)
(***************************************************************************)
EXTENDS Integers, Sequences, FiniteSets, TLC

VARIABLES manifests, calls, first, last

vars == <<manifests, calls, first, last>>

----------------------------------------------------------------------------
(* JavaScript values *)

Undefined == [t |-> "undefined", s |-> "", n |-> 0]
Null == [t |-> "null", s |-> "", n |-> 0]
Str(x) == [t |-> "string", s |-> x, n |-> 0]
Num(k) == [t |-> "number", s |-> "", n |-> k]
Bool(b) == [t |-> "boolean", s |-> "", n |-> IF b THEN 1 ELSE 0]
Arr(k) == [t |-> "array", s |-> "", n |-> k]
TypeError == [t |-> "throw", s |-> "TypeError", n |-> 0]

JsTrue == Bool(TRUE)
JsFalse == Bool(FALSE)

IsThrow(v) == v.t = "throw"

\* ToBoolean: undefined, null, "", 0 and false are falsy, everything else truthy
ToBoolean(v) ==
  CASE v.t = "undefined" -> FALSE
    [] v.t = "null" -> FALSE
    [] v.t = "string" -> v.s # ""
    [] v.t = "number" -> v.n # 0
    [] v.t = "boolean" -> v.n = 1
    [] OTHER -> TRUE

\* !v
Not(v) == IF IsThrow(v) THEN v ELSE Bool(~ToBoolean(v))

\* a && b: the left operand when it is falsy, else the right operand
And(a, b) == IF IsThrow(a) THEN a ELSE IF ToBoolean(a) THEN b ELSE a

\* obj[f]: a TypeError on undefined and null, undefined on a primitive
GetProp(obj, f) ==
  CASE IsThrow(obj) -> obj
    [] obj.t \in {"undefined", "null"} -> TypeError
    [] obj.t = "object" -> obj[f]
    [] OTHER -> Undefined

\* w.value: a TypeError when w is undefined or null, that is, when the field
\* has no wrapper
GetValue(w) ==
  CASE IsThrow(w) -> w
    [] w.t \in {"undefined", "null"} -> TypeError
    [] w.t \in {"wrapper", "manifest"} -> w.value
    [] OTHER -> Undefined

\* v.length: a TypeError on undefined and null, the length of a string or an
\* array, undefined on any other primitive
GetLength(v) ==
  CASE IsThrow(v) -> v
    [] v.t \in {"undefined", "null"} -> TypeError
    [] v.t = "string" -> Num(Len(v.s))
    [] v.t \in {"array", "icons"} -> Num(v.n)
    [] OTHER -> Undefined

\* a <= k for a number k: undefined converts to NaN, which compares false
LessEq(a, k) ==
  CASE IsThrow(a) -> a
    [] a.t = "number" -> Bool(a.n <= k)
    [] a.t = "null" -> Bool(0 <= k)
    [] a.t = "boolean" -> Bool(a.n <= k)
    [] OTHER -> JsFalse

\* a > k for a number k
Greater(a, k) ==
  CASE IsThrow(a) -> a
    [] a.t = "number" -> Bool(a.n > k)
    [] a.t = "boolean" -> Bool(a.n > k)
    [] OTHER -> JsFalse

\* Array.prototype.includes over an array of strings (SameValueZero)
Includes(arr, v) ==
  IF IsThrow(v) THEN v ELSE Bool(\E i \in 1..Len(arr) : arr[i] = v)

RECURSIVE Join(_, _)
\* Array.prototype.join over an array of strings
Join(arr, sep) ==
  IF Len(arr) = 0 THEN ""
  ELSE IF Len(arr) = 1 THEN arr[1].s
  ELSE arr[1].s \o sep \o Join(Tail(arr), sep)

\* a field of the normalized manifest: {value: ...}
Wrap(v) == [t |-> "wrapper", value |-> v]

----------------------------------------------------------------------------
(* Constants of manifest-values.js *)

PWA_DISPLAY_VALUES == <<Str("minimal-ui"), Str("fullscreen"), Str("standalone")>>

SUGGESTED_SHORTNAME_LENGTH == 12

validityIds == <<"hasManifest", "hasParseableManifest">>

----------------------------------------------------------------------------
(* lib/icons.js, the icon-query collaborator: "do any icons exist" and     *)
(* "list the icons whose declared size meets or exceeds N px".             *)

\* an icon descriptor: the sizes it declares, e.g. <<"192x192", "512x512">>
Icon(sizes) == [sizes |-> sizes]

\* the array of icon descriptors held by manifestValue.icons.value
Icons(items) == [t |-> "icons", s |-> "", n |-> Len(items), items |-> items]

\* the pixel width and height a size string declares; <<0, 0>> for a string
\* that declares no pixel size (such as "any")
SizeDims(size) ==
  CASE size = "48x48" -> <<48, 48>>
    [] size = "144x144" -> <<144, 144>>
    [] size = "191x191" -> <<191, 191>>
    [] size = "192x192" -> <<192, 192>>
    [] size = "256x256" -> <<256, 256>>
    [] size = "511x511" -> <<511, 511>>
    [] size = "512x512" -> <<512, 512>>
    [] size = "1024x1024" -> <<1024, 1024>>
    [] size = "512x192" -> <<512, 192>>
    [] size = "192x512" -> <<192, 512>>
    [] OTHER -> <<0, 0>>

\* whether the icon declares a size of at least sizeRequirement px in both
\* dimensions
IconIsAtLeast(sizeRequirement, icon) ==
  \E i \in 1..Len(icon.sizes) :
    /\ SizeDims(icon.sizes[i])[1] >= sizeRequirement
    /\ SizeDims(icon.sizes[i])[2] >= sizeRequirement

\* icons.doExist(manifest): the manifest has an icon list and it is not empty
doExist(manifest) ==
  IF manifest.t # "object" THEN JsFalse
  ELSE IF manifest.icons.t # "wrapper" THEN JsFalse
  ELSE IF manifest.icons.value.t # "icons" THEN JsFalse
  ELSE Bool(Len(manifest.icons.value.items) > 0)

\* icons.sizeAtLeast(sizeRequirement, manifest): the icons of the list, in
\* order, that declare a size of at least sizeRequirement px; reading the list
\* of a manifest that has none is a TypeError
sizeAtLeast(sizeRequirement, manifest) ==
  IF manifest.t # "object" THEN TypeError
  ELSE IF manifest.icons.t # "wrapper" THEN TypeError
  ELSE IF manifest.icons.value.t # "icons" THEN TypeError
  ELSE Icons(SelectSeq(manifest.icons.value.items,
                       LAMBDA icon : IconIsAtLeast(sizeRequirement, icon)))

----------------------------------------------------------------------------
(* ManifestValues.manifestChecks: the validators *)

validate_hasStartUrl(manifestValue) ==
  Not(Not(GetValue(GetProp(manifestValue, "start_url"))))

\* variant: the requirement is written as 144
validate_hasIconsAtLeast192px_144(manifestValue) ==
  And(doExist(manifestValue),
      Greater(GetLength(sizeAtLeast(144, manifestValue)), 0))

validate_hasIconsAtLeast192px(manifestValue) ==
  And(doExist(manifestValue),
      Greater(GetLength(sizeAtLeast(192, manifestValue)), 0))

validate_hasIconsAtLeast512px(manifestValue) ==
  And(doExist(manifestValue),
      Greater(GetLength(sizeAtLeast(512, manifestValue)), 0))

\* variant: any truthy display value is accepted
validate_hasPWADisplayValue_Truthy(manifestValue) ==
  Not(Not(GetValue(GetProp(manifestValue, "display"))))

validate_hasPWADisplayValue(manifestValue) ==
  Includes(PWA_DISPLAY_VALUES, GetValue(GetProp(manifestValue, "display")))

validate_hasBackgroundColor(manifestValue) ==
  Not(Not(GetValue(GetProp(manifestValue, "background_color"))))

validate_hasThemeColor(manifestValue) ==
  Not(Not(GetValue(GetProp(manifestValue, "theme_color"))))

\* variant: the value is returned as it is, without !!
validate_hasShortName_Raw(manifestValue) ==
  GetValue(GetProp(manifestValue, "short_name"))

validate_hasShortName(manifestValue) ==
  Not(Not(GetValue(GetProp(manifestValue, "short_name"))))

\* variant: the comparison is strict
validate_shortNameLength_Strict(manifestValue) ==
  And(Not(Not(GetValue(GetProp(manifestValue, "short_name")))),
      LessEq(GetLength(GetValue(GetProp(manifestValue, "short_name"))),
             SUGGESTED_SHORTNAME_LENGTH - 1))

validate_shortNameLength(manifestValue) ==
  And(Not(Not(GetValue(GetProp(manifestValue, "short_name")))),
      LessEq(GetLength(GetValue(GetProp(manifestValue, "short_name"))),
             SUGGESTED_SHORTNAME_LENGTH))

\* variant: the validator was copied from hasThemeColor and still reads its field
validate_hasName_ReadsThemeColor(manifestValue) ==
  Not(Not(GetValue(GetProp(manifestValue, "theme_color"))))

validate_hasName(manifestValue) ==
  Not(Not(GetValue(GetProp(manifestValue, "name"))))

\* the catalog, in declaration order (a failureText writes ' where the source
\* writes a backquote, which a TLA+ string cannot hold)
manifestChecks ==
  << [id |-> "hasStartUrl",
      failureText |-> "Manifest does not contain a 'start_url'"],
     [id |-> "hasIconsAtLeast192px",
      failureText |-> "Manifest does not have icons at least 192px"],
     [id |-> "hasIconsAtLeast512px",
      failureText |-> "Manifest does not have icons at least 512px"],
     [id |-> "hasPWADisplayValue",
      failureText |-> "Manifest's 'display' value is not one of: "
                        \o Join(PWA_DISPLAY_VALUES, " | ")],
     [id |-> "hasBackgroundColor",
      failureText |-> "Manifest does not have 'background_color'"],
     [id |-> "hasThemeColor",
      failureText |-> "Manifest does not have 'theme_color'"],
     [id |-> "hasShortName",
      failureText |-> "Manifest does not have 'short_name'"],
     [id |-> "shortNameLength",
      failureText |->
        "Manifest 'short_name' will be truncated when displayed on the homescreen"],
     [id |-> "hasName",
      failureText |-> "Manifest does not have 'name'"] >>

\* item.validate(manifestValue): the validator the catalog pairs with item.id
Validate(item, manifestValue) ==
  CASE item.id = "hasStartUrl" -> validate_hasStartUrl(manifestValue)
    [] item.id = "hasIconsAtLeast192px" -> validate_hasIconsAtLeast192px(manifestValue)
    [] item.id = "hasIconsAtLeast512px" -> validate_hasIconsAtLeast512px(manifestValue)
    [] item.id = "hasPWADisplayValue" -> validate_hasPWADisplayValue(manifestValue)
    [] item.id = "hasBackgroundColor" -> validate_hasBackgroundColor(manifestValue)
    [] item.id = "hasThemeColor" -> validate_hasThemeColor(manifestValue)
    [] item.id = "hasShortName" -> validate_hasShortName(manifestValue)
    [] item.id = "shortNameLength" -> validate_shortNameLength(manifestValue)
    [] item.id = "hasName" -> validate_hasName(manifestValue)
    [] OTHER -> TypeError

----------------------------------------------------------------------------
(* ManifestValues.compute_ *)

\* The outcome of a call: the promise compute_ returns is fulfilled with a
\* report or rejected with the error a validator threw.  evaluated lists the
\* ids of the validators the call invoked, in order.
Fulfilled(report, evaluated) ==
  [settled |-> "fulfilled", report |-> report, evaluated |-> evaluated]
Rejected(error, evaluated) ==
  [settled |-> "rejected", report |-> error, evaluated |-> evaluated]
NoOutcome == [settled |-> "none", report |-> Undefined, evaluated |-> <<>>]

\* variant: the walk over the catalog ends at the first check that fails
MapChecks_StopAtFailure(checks, manifestValue) ==
  LET all == [i \in 1..Len(checks) |->
                [id |-> checks[i].id,
                 failureText |-> checks[i].failureText,
                 passing |-> Validate(checks[i], manifestValue)]]
      failing == {i \in 1..Len(checks) : all[i].passing # JsTrue}
      n == IF failing = {} THEN Len(checks)
           ELSE CHOOSE i \in failing : \A j \in failing : i <= j
  IN  [results |-> SubSeq(all, 1, n),
       evaluated |-> [i \in 1..n |-> checks[i].id],
       error |-> Undefined]

\* manifestChecks.map(item => ({id, failureText, passing: item.validate(..)})):
\* the items are visited in order; a validator that throws ends the map
MapChecks(checks, manifestValue) ==
  LET step[i \in 0..Len(checks)] ==
        IF i = 0
        THEN [results |-> <<>>, evaluated |-> <<>>, error |-> Undefined]
        ELSE LET prev == step[i - 1]
                 item == checks[i]
                 passing == Validate(item, manifestValue)
             IN  IF IsThrow(prev.error) THEN prev
                 ELSE IF IsThrow(passing)
                 THEN [results |-> prev.results,
                       evaluated |-> Append(prev.evaluated, item.id),
                       error |-> passing]
                 ELSE [results |-> Append(prev.results,
                                          [id |-> item.id,
                                           failureText |-> item.failureText,
                                           passing |-> passing]),
                       evaluated |-> Append(prev.evaluated, item.id),
                       error |-> Undefined]
  IN  step[Len(checks)]

\* variant: the test is written against undefined
IsNullManifest_Undefined(manifest) == manifest = Undefined

\* manifest === null
IsNullManifest(manifest) == manifest = Null

\* variant: the test is written against null
IsUndefinedValue_Null(manifestValue) == manifestValue = Null

\* manifestValue === undefined
IsUndefinedValue(manifestValue) == manifestValue = Undefined

NoManifestReport ==
  [isParseFailure |-> TRUE,
   parseFailureReason |-> Str("No manifest was fetched"),
   allChecks |-> <<>>]

ParseFailureReport ==
  [isParseFailure |-> TRUE,
   parseFailureReason |-> Str("Manifest failed to parse as valid JSON"),
   allChecks |-> <<>>]

\* variant: parseFailureReason is initialised to the empty string
FullReport_EmptyReason(remainingChecks) ==
  [isParseFailure |-> FALSE,
   parseFailureReason |-> Str(""),
   allChecks |-> remainingChecks]

\* variant: the results are pushed onto an array that outlives the call, so a
\* report carries the checks of the caller's previous report as well
FullReport_Accumulating(remainingChecks) ==
  [isParseFailure |-> FALSE,
   parseFailureReason |-> Undefined,
   allChecks |-> (IF last[1].settled = "fulfilled"
                  THEN last[1].report.allChecks ELSE <<>>) \o remainingChecks]

\* parseFailureReason is declared and never assigned: it is undefined
FullReport(remainingChecks) ==
  [isParseFailure |-> FALSE,
   parseFailureReason |-> Undefined,
   allChecks |-> remainingChecks]

compute_(manifest) ==
  IF IsNullManifest(manifest) THEN Fulfilled(NoManifestReport, <<>>)
  ELSE LET manifestValue == GetValue(manifest)
       IN  IF IsThrow(manifestValue) THEN Rejected(manifestValue, <<>>)
           ELSE IF IsUndefinedValue(manifestValue)
           THEN Fulfilled(ParseFailureReport, <<>>)
           ELSE LET remainingChecks == MapChecks(manifestChecks, manifestValue)
                IN  IF IsThrow(remainingChecks.error)
                    THEN Rejected(remainingChecks.error, remainingChecks.evaluated)
                    ELSE Fulfilled(FullReport(remainingChecks.results),
                                   remainingChecks.evaluated)

----------------------------------------------------------------------------
(* The Manifest artifact handed to compute_ *)

\* the artifact of a manifest that was fetched: {value: ...}
Parsed(manifestValue) == [t |-> "manifest", value |-> manifestValue]

\* fetched, but the parser produced no value
Unparsed == Parsed(Undefined)

Fields ==
  {"start_url", "icons", "display", "background_color", "theme_color",
   "short_name", "name"}

\* values of any type a field wrapper may carry
PlainValues ==
  {Undefined, Null, Str(""), Str("x"), Num(0), JsFalse, Arr(0)}

DisplayValues ==
  {Undefined, Null, Str(""), Str("browser"), Str("minimal-ui"),
   Str("fullscreen"), Str("standalone"), Str("Standalone"), Num(1), JsTrue}

ShortNameValues ==
  {Undefined, Null, Str(""), Str("App"), Str("TwelveChars!"),
   Str("ThirteenChars"), Str("ThisNameIsWayTooLong"), Num(0), Num(5),
   JsTrue, Arr(0), Arr(3), Arr(13)}

IconLists ==
  { <<>>,
    <<Icon(<<>>)>>,
    <<Icon(<<"any">>)>>,
    <<Icon(<<"144x144">>)>>,
    <<Icon(<<"191x191">>)>>,
    <<Icon(<<"192x192">>)>>,
    <<Icon(<<"511x511">>)>>,
    <<Icon(<<"512x512">>)>>,
    <<Icon(<<"512x192">>)>>,
    <<Icon(<<"48x48", "256x256">>)>>,
    <<Icon(<<"144x144">>), Icon(<<"1024x1024">>)>>,
    <<Icon(<<"192x192">>), Icon(<<"512x512">>)>> }

\* the wrappers a field may hold; the icons key may also be missing
FieldValues(f) ==
  CASE f = "icons" ->
         {Undefined, Wrap(Undefined)} \cup {Wrap(Icons(l)) : l \in IconLists}
    [] f = "display" -> {Wrap(v) : v \in DisplayValues}
    [] f = "short_name" -> {Wrap(v) : v \in ShortNameValues}
    [] OTHER -> {Wrap(v) : v \in PlainValues}

\* a manifest that declares nothing
EmptyManifest ==
  [t |-> "object",
   start_url |-> Wrap(Undefined),
   icons |-> Wrap(Icons(<<>>)),
   display |-> Wrap(Undefined),
   background_color |-> Wrap(Undefined),
   theme_color |-> Wrap(Undefined),
   short_name |-> Wrap(Undefined),
   name |-> Wrap(Undefined)]

\* a manifest that declares every field the checks read
CompleteManifest ==
  [t |-> "object",
   start_url |-> Wrap(Str("/")),
   icons |-> Wrap(Icons(<<Icon(<<"192x192">>), Icon(<<"512x512">>)>>)),
   display |-> Wrap(Str("standalone")),
   background_color |-> Wrap(Str("#ffffff")),
   theme_color |-> Wrap(Str("#000000")),
   short_name |-> Wrap(Str("App")),
   name |-> Wrap(Str("Application"))]

Bases == {EmptyManifest, CompleteManifest}

\* the manifest values that differ from manifestValue in at most one field
Variations(manifestValue) ==
  UNION {{[manifestValue EXCEPT ![f] = w] : w \in FieldValues(f)} : f \in Fields}

ManifestValues == UNION {Variations(b) : b \in Bases}

Inputs == {Null, Unparsed} \cup {Parsed(v) : v \in ManifestValues}

\* the inputs a second caller passes: the same artifact, a failed fetch or
\* parse, or a manifest that differs from it in one field
Related(manifest) ==
  {manifest, Null, Unparsed} \cup
    ( IF manifest.t = "manifest" /\ manifest.value # Undefined
      THEN {Parsed(v) : v \in Variations(manifest.value)}
      ELSE {Parsed(b) : b \in Bases} )

----------------------------------------------------------------------------
(* The state machine: two callers, each holding a Manifest artifact, call  *)
(* compute_ up to MaxCalls times each, in any interleaving.                *)

MaxCalls == 2

Slots == {1, 2}

Init ==
  /\ manifests \in UNION {{<<m1, m2>> : m2 \in Related(m1)} : m1 \in Inputs}
  /\ calls = [s \in Slots |-> 0]
  /\ first = [s \in Slots |-> NoOutcome]
  /\ last = [s \in Slots |-> NoOutcome]

\* caller s calls compute_ with its artifact and receives the outcome; the
\* call has no await in it, so it runs to completion in one step
Compute(s) ==
  /\ calls[s] < MaxCalls
  /\ LET outcome == compute_(manifests[s])
     IN  /\ last' = [last EXCEPT ![s] = outcome]
         /\ first' = IF calls[s] = 0 THEN [first EXCEPT ![s] = outcome] ELSE first
  /\ calls' = [calls EXCEPT ![s] = @ + 1]
  /\ UNCHANGED manifests

Next == \E s \in Slots : Compute(s)

Spec == Init /\ [][Next]_vars

----------------------------------------------------------------------------
(* Vocabulary of the properties *)

\* caller s has received the outcome of a call
Returned(s) == calls[s] > 0

\* the artifact holds a normalized manifest value
IsParsedInput(manifest) == manifest.t = "manifest" /\ manifest.value.t = "object"

\* the value a field of caller s's manifest wraps
FieldValue(s, f) == manifests[s].value[f].value

\* the passing entry of the check named id in a fulfilled outcome
PassingOf(outcome, id) ==
  LET checks == outcome.report.allChecks
  IN  checks[CHOOSE i \in 1..Len(checks) : checks[i].id = id].passing

Passing(s, id) == PassingOf(last[s], id)

\* caller s passed a parsed manifest and received a full report
FullyReported(s) ==
  /\ Returned(s)
  /\ IsParsedInput(manifests[s])
  /\ last[s].settled = "fulfilled"
  /\ Len(last[s].report.allChecks) = 9

CatalogOrder ==
  <<"hasStartUrl", "hasIconsAtLeast192px", "hasIconsAtLeast512px",
    "hasPWADisplayValue", "hasBackgroundColor", "hasThemeColor",
    "hasShortName", "shortNameLength", "hasName">>

ParseFailureReasons ==
  {Str("No manifest was fetched"), Str("Manifest failed to parse as valid JSON")}

----------------------------------------------------------------------------
(* Properties *)

\* C1: a call with a null manifest is fulfilled with isParseFailure = true,
\* parseFailureReason = "No manifest was fetched" and an empty allChecks, and
\* invokes no validator.
C1_NoManifest ==
  \A s \in Slots :
    Returned(s) /\ manifests[s] = Null =>
      /\ last[s].settled = "fulfilled"
      /\ last[s].report.isParseFailure = TRUE
      /\ last[s].report.parseFailureReason = Str("No manifest was fetched")
      /\ last[s].report.allChecks = <<>>
      /\ last[s].evaluated = <<>>

C1_Witness ==
  \E s \in Slots :
    Returned(s) /\ manifests[s] = Null /\ last[s].report.isParseFailure

\* C2: a call with a non-null manifest whose value is undefined is fulfilled
\* with isParseFailure = true, parseFailureReason = "Manifest failed to parse
\* as valid JSON" and an empty allChecks, and invokes no validator.
C2_Unparsed ==
  \A s \in Slots :
    Returned(s) /\ manifests[s] # Null /\ manifests[s].value = Undefined =>
      /\ last[s].settled = "fulfilled"
      /\ last[s].report.isParseFailure = TRUE
      /\ last[s].report.parseFailureReason =
           Str("Manifest failed to parse as valid JSON")
      /\ last[s].report.allChecks = <<>>
      /\ last[s].evaluated = <<>>

C2_Witness ==
  \E s \in Slots :
    Returned(s) /\ manifests[s] = Unparsed /\ last[s].report.isParseFailure

\* C3: a call with a parsed manifest is fulfilled with isParseFailure = false
\* and nine checks whose ids and failure texts are the catalog's, in the
\* declaration order; the ids are pairwise distinct, every validator ran, in
\* that order, and no validity id is among the checks.
C3_FullCatalog ==
  \A s \in Slots :
    Returned(s) /\ IsParsedInput(manifests[s]) =>
      /\ last[s].settled = "fulfilled"
      /\ last[s].report.isParseFailure = FALSE
      /\ Len(last[s].report.allChecks) = 9
      /\ Len(manifestChecks) = 9
      /\ \A i \in 1..9 :
           /\ last[s].report.allChecks[i].id = CatalogOrder[i]
           /\ last[s].report.allChecks[i].id = manifestChecks[i].id
           /\ last[s].report.allChecks[i].failureText = manifestChecks[i].failureText
      /\ \A i, j \in 1..9 :
           i # j => last[s].report.allChecks[i].id # last[s].report.allChecks[j].id
      /\ last[s].evaluated = CatalogOrder
      /\ \A i \in 1..9, k \in 1..Len(validityIds) :
           last[s].report.allChecks[i].id # validityIds[k]

\* a manifest whose first rule fails and one whose first rule passes both get
\* the whole catalog
C3_Witness ==
  \E s \in Slots :
    /\ FullyReported(s)
    /\ Passing(s, "hasStartUrl") = JsFalse
    /\ Passing(s, "hasName") = JsTrue

\* C4: in every report returned, parseFailureReason is set exactly when
\* isParseFailure is true and is then one of the two reasons, and allChecks is
\* empty exactly when isParseFailure is true.
C4_ReportShape ==
  \A s \in Slots :
    Returned(s) /\ last[s].settled = "fulfilled" =>
      LET report == last[s].report
      IN  /\ (report.parseFailureReason # Undefined) <=> report.isParseFailure
          /\ report.isParseFailure => report.parseFailureReason \in ParseFailureReasons
          /\ (report.allChecks = <<>>) <=> report.isParseFailure

C4_Witness ==
  \E s, u \in Slots :
    /\ Returned(s) /\ last[s].settled = "fulfilled"
    /\ Returned(u) /\ last[u].settled = "fulfilled"
    /\ last[s].report.isParseFailure
    /\ ~last[u].report.isParseFailure
    /\ last[u].report.parseFailureReason = Undefined

\* the manifest field each check reads
ReferencedField(id) ==
  CASE id = "hasStartUrl" -> "start_url"
    [] id = "hasIconsAtLeast192px" -> "icons"
    [] id = "hasIconsAtLeast512px" -> "icons"
    [] id = "hasPWADisplayValue" -> "display"
    [] id = "hasBackgroundColor" -> "background_color"
    [] id = "hasThemeColor" -> "theme_color"
    [] id = "hasShortName" -> "short_name"
    [] id = "shortNameLength" -> "short_name"
    [] id = "hasName" -> "name"

\* C5: two parsed manifests that agree on the field a check reads get the
\* same passing value for that check, whatever their other fields hold.
C5_RuleIndependence ==
  \A s, u \in Slots :
    FullyReported(s) /\ FullyReported(u) =>
      \A i \in 1..9 :
        manifests[s].value[ReferencedField(CatalogOrder[i])]
            = manifests[u].value[ReferencedField(CatalogOrder[i])]
          => Passing(s, CatalogOrder[i]) = Passing(u, CatalogOrder[i])

\* two manifests that differ in theme_color alone: hasThemeColor differs,
\* hasName does not
C5_Witness ==
  \E s, u \in Slots :
    /\ FullyReported(s) /\ FullyReported(u)
    /\ manifests[s].value.theme_color # manifests[u].value.theme_color
    /\ manifests[s].value.name = manifests[u].value.name
    /\ Passing(s, "hasThemeColor") # Passing(u, "hasThemeColor")
    /\ Passing(s, "hasName") = JsTrue
    /\ Passing(u, "hasName") = JsTrue

LengthAtMost(v, k) ==
  \/ v.t = "string" /\ Len(v.s) <= k
  \/ v.t = "array" /\ v.n <= k

\* C7: shortNameLength passes exactly when short_name's value is truthy and
\* its length is at most 12, so it never passes unless hasShortName does.
C7_ShortNameLength ==
  \A s \in Slots :
    FullyReported(s) =>
      /\ Passing(s, "shortNameLength") =
           Bool(ToBoolean(FieldValue(s, "short_name"))
                  /\ LengthAtMost(FieldValue(s, "short_name"), 12))
      /\ Passing(s, "shortNameLength") = JsTrue => Passing(s, "hasShortName") = JsTrue
      /\ FieldValue(s, "short_name") = Str("TwelveChars!") =>
           Passing(s, "shortNameLength") = JsTrue
      /\ FieldValue(s, "short_name") \in {Str("ThirteenChars"), Str(""), Undefined} =>
           Passing(s, "shortNameLength") = JsFalse

C7_Witness ==
  \E s, u \in Slots :
    /\ FullyReported(s) /\ FullyReported(u)
    /\ FieldValue(s, "short_name") = Str("ThisNameIsWayTooLong")
    /\ Passing(s, "shortNameLength") = JsFalse
    /\ Passing(s, "hasShortName") = JsTrue
    /\ FieldValue(u, "short_name") = Str("TwelveChars!")
    /\ Passing(u, "shortNameLength") = JsTrue

\* the icon list of caller s's manifest, empty when it has none
IconList(s) ==
  LET field == manifests[s].value.icons
  IN  IF field.t = "wrapper" /\ field.value.t = "icons" THEN field.value.items
      ELSE <<>>

\* some icon of the list declares a size of at least n px in both dimensions
SomeIconAtLeast(list, n) ==
  \E i \in 1..Len(list) :
    \E j \in 1..Len(list[i].sizes) :
      SizeDims(list[i].sizes[j])[1] >= n /\ SizeDims(list[i].sizes[j])[2] >= n

\* C8: hasIconsAtLeast192px (512px) passes exactly when the icon list is not
\* empty and some icon declares a size of at least 192 (512) px in both
\* dimensions; the 512px check never passes unless the 192px check does.
C8_IconSizes ==
  \A s \in Slots :
    FullyReported(s) =>
      /\ Passing(s, "hasIconsAtLeast192px") =
           Bool(Len(IconList(s)) > 0 /\ SomeIconAtLeast(IconList(s), 192))
      /\ Passing(s, "hasIconsAtLeast512px") =
           Bool(Len(IconList(s)) > 0 /\ SomeIconAtLeast(IconList(s), 512))
      /\ manifests[s].value.icons = Undefined =>
           /\ Passing(s, "hasIconsAtLeast192px") = JsFalse
           /\ Passing(s, "hasIconsAtLeast512px") = JsFalse
      /\ Passing(s, "hasIconsAtLeast512px") = JsTrue =>
           Passing(s, "hasIconsAtLeast192px") = JsTrue

C8_Witness ==
  \E s, u \in Slots :
    /\ FullyReported(s) /\ FullyReported(u)
    /\ IconList(s) = <<Icon(<<"512x512">>)>>
    /\ Passing(s, "hasIconsAtLeast192px") = JsTrue
    /\ Passing(s, "hasIconsAtLeast512px") = JsTrue
    /\ manifests[u].value.icons = Undefined
    /\ Passing(u, "hasIconsAtLeast192px") = JsFalse

\* C9: hasPWADisplayValue passes exactly when the display value is one of
\* minimal-ui, fullscreen and standalone.
C9_DisplayValue ==
  \A s \in Slots :
    FullyReported(s) =>
      Passing(s, "hasPWADisplayValue") =
        Bool(FieldValue(s, "display")
               \in {Str("minimal-ui"), Str("fullscreen"), Str("standalone")})

C9_Witness ==
  \E s, u \in Slots :
    /\ FullyReported(s) /\ FullyReported(u)
    /\ FieldValue(s, "display") = Str("browser")
    /\ Passing(s, "hasPWADisplayValue") = JsFalse
    /\ FieldValue(u, "display") = Str("minimal-ui")
    /\ Passing(u, "hasPWADisplayValue") = JsTrue

PresenceChecks ==
  {"hasStartUrl", "hasBackgroundColor", "hasThemeColor", "hasShortName", "hasName"}

\* C10: on a manifest whose fields all have wrappers no validator throws, the
\* call is fulfilled with nine checks whose passing is true or false, and a
\* presence check passes exactly when the value of its field is truthy.
C10_Totality ==
  \A s \in Slots :
    Returned(s) /\ IsParsedInput(manifests[s]) =>
      /\ last[s].settled = "fulfilled"
      /\ Len(last[s].report.allChecks) = 9
      /\ \A i \in 1..9 : last[s].report.allChecks[i].passing \in {JsTrue, JsFalse}
      /\ \A id \in PresenceChecks :
           Passing(s, id) = Bool(ToBoolean(FieldValue(s, ReferencedField(id))))

\* short_name wraps undefined, whose length cannot be read, and name wraps a
\* value that is not a string
C10_Witness ==
  \E s, u \in Slots :
    /\ FullyReported(s) /\ FullyReported(u)
    /\ FieldValue(s, "short_name") = Undefined
    /\ Passing(s, "shortNameLength") = JsFalse
    /\ FieldValue(u, "short_name") = Num(5)
    /\ Passing(u, "hasShortName") = JsTrue
    /\ Passing(u, "shortNameLength") = JsFalse

====
